---- MODULE Spec2Model ----
(***************************************************************************)
(* Model of miRNAs-targetNETs.py: the edge builder (build_edges), the      *)
(* circular renderer (plot_circular_network), the cleaning loader          *)
(* (load_clean) and the sequential driver (main).                          *)
(*                                                                         *)
(* Representation.                                                         *)
(*  - A Python string is a sequence of one-character strings (a character  *)
(*    beyond U+007F is written by its code point name, "U+00A0"); NaN (an  *)
(*    empty spreadsheet cell) is the one-element sequence <<"NaN">>, which *)
(*    no string equals.                                                    *)
(*  - A DataFrame holding a target table is a sequence of columns, each a  *)
(*    record [name, cells]; all columns have the same number of cells and  *)
(*    the column names are pairwise distinct (pandas keeps them so).       *)
(*  - An edge DataFrame is a record [columns, rows], rows a sequence of    *)
(*    records [miRNA, Gene] or [miRNA, Gene, Category].                    *)
(*  - Radii and line widths are kept in tenths (3.8 -> 38).                *)
(*  - A position (cos(2*pi*k/n)*r, sin(2*pi*k/n)*r) is the record          *)
(*    [r, k, n]: slot k of n on the circle of radius r.                    *)
(***************************************************************************)
EXTENDS Integers, Sequences, FiniteSets, TLC

VARIABLES
    pc,             \* position of the running call sequence
    fs,             \* the input files: path -> [exists, sheet]
    df,             \* build_edges argument
    title,          \* plot_circular_network argument
    mirna_palette,  \* plot_circular_network argument
    out_png,        \* plot_circular_network argument
    edges_df,       \* value returned by build_edges
    render,         \* what the last plot_circular_network call did
    open_figs,      \* matplotlib figures created and not closed
    images,         \* image files written so far, in order
    up_df, edges_up, down_df, edges_down,   \* locals of main
    stdout,         \* lines printed
    log             \* steps of main that were started, in order

vars == <<pc, fs, df, title, mirna_palette, out_png, edges_df, render,
          open_figs, images, up_df, edges_up, down_df, edges_down, stdout, log>>

(***************************** bounds **************************************)
\* a target table given to build_edges has at most MaxCells cells
MaxCells == 6
\* a palette given to plot_circular_network has at most MaxPalette entries
MaxPalette == 3
\* a spreadsheet read by main has at most MaxSheetCells cells (or is the wide sheet)
MaxSheetCells == 2

(***************************** configuration *******************************)
UP_XLSX == "metascapemiRNAsup.xlsx"
DOWN_XLSX == "metascapemiRNAsdown.xlsx"

PALETTE_UP == <<"#D73027", "#FC8D59", "#F46D43", "#FDAE61", "#FEE090", "#E6550D", "#A63603">>
PALETTE_DOWN == <<"#4575B4", "#74ADD1", "#3288BD", "#ABD9E9", "#5E4FA2", "#1F78B4", "#084594">>

RINGS == [c \in {"2", "3", "4+"} |-> CASE c = "2" -> 38 [] c = "3" -> 23 [] c = "4+" -> 11]
EDGE_LW == [c \in {"2", "3", "4+"} |-> CASE c = "2" -> 5 [] c = "3" -> 9 [] c = "4+" -> 14]
R_outer == 52
FallbackColor == "#888888"
Categories == <<"2", "3", "4+">>

(***************************** values **************************************)
NaN == <<"NaN">>
Digits == <<"1", "2", "3", "4", "5", "6", "7", "8", "9">>
\* the name of the i-th column of a sheet
MirName(i) == <<"m", Digits[i]>>
Genes == {<<"A">>, <<"B">>}
Cells == Genes \cup {NaN}

Min(a, b) == IF a <= b THEN a ELSE b

\* the rectangular tables with c columns and r rows over the cell values vals
TablesOf(c, r, vals) ==
    { [i \in 1..c |-> [name |-> MirName(i), cells |-> f[i]]] :
        f \in [1..c -> [1..r -> vals]] }

\* build_edges inputs: every table of at most MaxCells cells
Tables ==
    UNION { TablesOf(c, r, Cells) :
              <<c, r>> \in { p \in (0..MaxCells) \X (0..MaxCells) :
                               /\ p[1] * p[2] <= MaxCells
                               /\ p[1] = 0 => p[2] = 0 } }

\* plot_circular_network palettes: the prefixes of PALETTE_UP up to MaxPalette
Palettes == { SubSeq(PALETTE_UP, 1, k) : k \in 0..Min(MaxPalette, Len(PALETTE_UP)) }

(***************************** sequence helpers ****************************)
RECURSIVE Flatten(_)
\* concatenation of a sequence of sequences
Flatten(ss) == IF ss = <<>> THEN <<>> ELSE Head(ss) \o Flatten(Tail(ss))

RECURSIVE UniqueAcc(_, _)
UniqueAcc(s, acc) ==
    IF s = <<>> THEN acc
    ELSE IF \E j \in DOMAIN acc : acc[j] = Head(s)
         THEN UniqueAcc(Tail(s), acc)
         ELSE UniqueAcc(Tail(s), Append(acc, Head(s)))

\* pandas Series.unique(): the distinct values in order of first appearance
Unique(s) == UniqueAcc(s, <<>>)

(***************************** build_edges *********************************)
\* Series.dropna(): the non-NaN cells of a column, in order
DropNa(cells) == SelectSeq(cells, LAMBDA x : x # NaN)

\* the inner loop (lines 37-38) for one column
ColumnEdges(col) ==
    LET genes == DropNa(col.cells)
    IN  [i \in 1..Len(genes) |-> [miRNA |-> col.name, Gene |-> genes[i]]]

\* the double loop (lines 35-38): candidate edges, column by column
CandidateEdges(t) == Flatten([i \in 1..Len(t) |-> ColumnEdges(t[i])])

\* edges_df["Gene"].value_counts(): occurrences of each gene among the rows
ValueCounts(rows) ==
    [g \in {rows[i].Gene : i \in DOMAIN rows} |->
        Cardinality({i \in DOMAIN rows : rows[i].Gene = g})]

\* mutant of Shared: the threshold is off by one
SharedFromOne(gene_counts) == {g \in DOMAIN gene_counts : gene_counts[g] >= 1}

\* gene_counts[gene_counts >= 2].index
Shared(gene_counts) == {g \in DOMAIN gene_counts : gene_counts[g] >= 2}

\* mutant of FilterShared: repeated rows are dropped after the filter
FilterSharedDedup(rows, shared) == Unique(SelectSeq(rows, LAMBDA e : e.Gene \in shared))

\* edges_df[edges_df["Gene"].isin(shared.index)]
FilterShared(rows, shared) == SelectSeq(rows, LAMBDA e : e.Gene \in shared)

\* the nested function cat (lines 50-54), applied to a count
Cat(c) == IF c = 2 THEN "2" ELSE IF c = 3 THEN "3" ELSE "4+"

\* the early return of line 40
EmptyEdges == [columns |-> <<"miRNA", "Gene", "Category">>, rows |-> <<>>]

\* edges_df["Category"] = edges_df["Gene"].map(cat): a third column is added
WithCategory(rows, gene_counts) ==
    [columns |-> <<"miRNA", "Gene">> \o <<"Category">>,
     rows |-> [i \in DOMAIN rows |->
                 [miRNA |-> rows[i].miRNA, Gene |-> rows[i].Gene,
                  Category |-> Cat(gene_counts[rows[i].Gene])]]]

build_edges(t) ==
    LET edges == CandidateEdges(t)
    IN  IF edges = <<>> THEN EmptyEdges
        ELSE LET gene_counts == ValueCounts(edges)
                 shared == Shared(gene_counts)
             IN  WithCategory(FilterShared(edges, shared), gene_counts)

(***************************** plot_circular_network ***********************)
\* mutant of IsEmpty: only the column axis is looked at
IsEmptyColumnsOnly(edf) == Len(edf.columns) = 0

\* DataFrame.empty: some axis has length 0 (line 68)
IsEmpty(edf) == Len(edf.rows) = 0 \/ Len(edf.columns) = 0

\* nodes of G in insertion order: add_edge(mir, gene) adds mir, then gene
GraphNodes(rows) == Unique(Flatten([i \in DOMAIN rows |-> <<rows[i].miRNA, rows[i].Gene>>]))

\* G.adj[n]: the neighbours of n in insertion order
Adj(rows, n) ==
    Unique(Flatten([i \in DOMAIN rows |->
                      IF rows[i].miRNA = n THEN <<rows[i].Gene>>
                      ELSE IF rows[i].Gene = n THEN <<rows[i].miRNA>>
                      ELSE <<>>]))

\* the attributes of edge {u, v}: add_edge on an existing edge of nx.Graph
\* overwrites them, so the last row joining u and v decides (line 81)
EdgeData(rows, u, v) ==
    LET hits == {i \in DOMAIN rows : {rows[i].miRNA, rows[i].Gene} = {u, v}}
        last == CHOOSE i \in hits : \A j \in hits : j <= i
    IN  [mirna_origin |-> rows[last].miRNA, category |-> rows[last].Category]

\* mutant of GraphEdges: a multigraph, one edge per row
GraphEdgesPerRow(rows) ==
    [i \in DOMAIN rows |->
       [u |-> rows[i].miRNA, v |-> rows[i].Gene,
        d |-> [mirna_origin |-> rows[i].miRNA, category |-> rows[i].Category]]]

\* G.edges(data=True) of the nx.Graph built by lines 77-81: each undirected
\* edge once, reported from its endpoint that comes first in node order
GraphEdges(rows) ==
    LET nodes == GraphNodes(rows)
        From(i) ==
            LET seen == {nodes[j] : j \in 1..(i - 1)}
                nbrs == SelectSeq(Adj(rows, nodes[i]), LAMBDA x : x \notin seen)
            IN  [k \in DOMAIN nbrs |->
                   [u |-> nodes[i], v |-> nbrs[k], d |-> EdgeData(rows, nodes[i], nbrs[k])]]
    IN  Flatten([i \in DOMAIN nodes |-> From(i)])

\* edges_df["miRNA"].unique().tolist() (line 84)
MiRNAs(rows) == Unique([i \in DOMAIN rows |-> rows[i].miRNA])

\* zip(a, b): pairs up to the shorter argument
Zip(a, b) == [i \in 1..Min(Len(a), Len(b)) |-> <<a[i], b[i]>>]

\* dict(pairs): the last pair with a key decides its value
Dict(pairs) ==
    [key \in {pairs[i][1] : i \in DOMAIN pairs} |->
        LET hits == {i \in DOMAIN pairs : pairs[i][1] = key}
        IN  pairs[CHOOSE i \in hits : \A j \in hits : j <= i][2]]

\* mutant of MiRNAColors: the palette is cycled when it is too short
MiRNAColorsCycle(miRNAs, pal) ==
    IF Len(pal) = 0 THEN <<>>
    ELSE Dict([i \in DOMAIN miRNAs |-> <<miRNAs[i], pal[((i - 1) % Len(pal)) + 1]>>])

\* dict(zip(miRNAs, mirna_palette[:len(miRNAs)])) (line 85)
MiRNAColors(miRNAs, pal) == Dict(Zip(miRNAs, SubSeq(pal, 1, Min(Len(miRNAs), Len(pal)))))

\* mutant of Linspace: the endpoint 2*pi is included
LinspaceEndpoint(n) == [i \in 1..n |-> [k |-> i - 1, n |-> n - 1]]

\* np.linspace(0, 2*pi, n, endpoint=False): entry i (from 0) is the angle 2*pi*i/n
Linspace(n) == [i \in 1..n |-> [k |-> i - 1, n |-> n]]

\* (cos(ang) * r, sin(ang) * r)
Polar(ang, r) == [r |-> r, k |-> ang.k, n |-> ang.n]

\* lines 90-92: the miRNAs on the outer circle
MirPositions(miRNAs) ==
    LET ang_mir == Linspace(Len(miRNAs))
    IN  Dict([i \in DOMAIN miRNAs |-> <<miRNAs[i], Polar(ang_mir[i], R_outer)>>])

\* edges_df.loc[edges_df["Category"] == cat, "Gene"].unique() (lines 96 and 122)
GenesOfCategory(rows, cat) ==
    LET sel == SelectSeq(rows, LAMBDA e : e.Category = cat)
    IN  Unique([i \in DOMAIN sel |-> sel[i].Gene])

\* lines 96-102 for one category: its genes on its ring
RingPositions(rows, cat) ==
    LET genes_cat == GenesOfCategory(rows, cat)
        ang == Linspace(Len(genes_cat))
    IN  Dict([i \in DOMAIN genes_cat |-> <<genes_cat[i], Polar(ang[i], RINGS[cat])>>])

\* lines 88-102: pos, later assignments overwriting earlier ones
Layout(rows) ==
    RingPositions(rows, Categories[3]) @@ RingPositions(rows, Categories[2])
      @@ RingPositions(rows, Categories[1]) @@ MirPositions(MiRNAs(rows))

\* miRNA_colors.get(mir_origin, "#888888") (line 108)
EdgeColor(colors, mir_origin) ==
    IF mir_origin \in DOMAIN colors THEN colors[mir_origin] ELSE FallbackColor

\* EDGE_LW.get(cat, 0.6) (line 110)
EdgeWidth(cat) == IF cat \in DOMAIN EDGE_LW THEN EDGE_LW[cat] ELSE 6

\* one ax.plot call (lines 106-110)
Segment(e, pos, colors) ==
    [from |-> pos[e.u], to |-> pos[e.v],
     color |-> EdgeColor(colors, e.d.mirna_origin), lw |-> EdgeWidth(e.d.category)]

\* the loop of lines 105-110: the segments drawn, and whether pos[u] or
\* pos[v] raised KeyError (the loop stops at the first edge that does)
DrawEdges(gedges, pos, colors) ==
    LET bad == {i \in DOMAIN gedges : gedges[i].u \notin DOMAIN pos \/ gedges[i].v \notin DOMAIN pos}
        stop == IF bad = {} THEN Len(gedges) + 1 ELSE CHOOSE i \in bad : \A j \in bad : i <= j
    IN  [lines |-> [i \in 1..(stop - 1) |-> Segment(gedges[i], pos, colors)],
         raised |-> bad # {}]

\* [miRNA_colors[m] for m in miRNAs] (line 117) raises KeyError
NodeColorLookupFails(miRNAs, colors) == \E i \in DOMAIN miRNAs : miRNAs[i] \notin DOMAIN colors

PreSteps == <<"subplots", "set_title", "axis_off">>
PlaceholderSteps == <<"text", "savefig", "close">>
GraphSteps == <<"graph", "colors", "layout", "draw_edges">>
FinishSteps == <<"draw_gene_nodes", "labels", "guides", "legend", "tight_layout", "savefig", "close">>

NoRender == [outcome |-> "none", steps |-> <<>>, lines |-> <<>>, pos |-> <<>>, miRNA_colors |-> <<>>]

\* The whole call.  opened/closed count the figures created and released,
\* saved is the sequence of images written (none or one).
plot_circular_network(edf, ttl, pal, png) ==
    IF IsEmpty(edf)
    THEN [render |-> [outcome |-> "returned", steps |-> PreSteps \o PlaceholderSteps,
                      lines |-> <<>>, pos |-> <<>>, miRNA_colors |-> <<>>],
          opened |-> 1, closed |-> 1,
          saved |-> <<[path |-> png, kind |-> "placeholder", title |-> ttl, lines |-> <<>>]>>]
    ELSE LET rows == edf.rows
             gedges == GraphEdges(rows)
             miRNAs == MiRNAs(rows)
             colors == MiRNAColors(miRNAs, pal)
             pos == Layout(rows)
             drawn == DrawEdges(gedges, pos, colors)
             base == [outcome |-> "returned", steps |-> PreSteps \o GraphSteps,
                      lines |-> drawn.lines, pos |-> pos, miRNA_colors |-> colors]
         IN  IF drawn.raised
             THEN [render |-> [base EXCEPT !.outcome = "KeyError"],
                   opened |-> 1, closed |-> 0, saved |-> <<>>]
             ELSE IF NodeColorLookupFails(miRNAs, colors)
             THEN [render |-> [base EXCEPT !.outcome = "KeyError",
                                           !.steps = @ \o <<"draw_mirna_nodes">>],
                   opened |-> 1, closed |-> 0, saved |-> <<>>]
             ELSE [render |-> [base EXCEPT !.steps = @ \o <<"draw_mirna_nodes">> \o FinishSteps],
                   opened |-> 1, closed |-> 1,
                   saved |-> <<[path |-> png, kind |-> "network", title |-> ttl,
                                lines |-> drawn.lines]>>]

(***************************** calls on arbitrary inputs *******************)
NoDF == <<>>
NoEdges == [columns |-> <<>>, rows |-> <<>>]
Titles == {"A) Upregulated miRNAs", "B) Downregulated miRNAs"}
UpPng == "network_up_alllabels.png"
DownPng == "network_down_alllabels.png"

Init ==
    /\ pc = "start"
    /\ df \in Tables
    /\ mirna_palette \in Palettes
    /\ title \in Titles
    /\ out_png = UpPng
    /\ fs = <<>>
    /\ edges_df = NoEdges
    /\ render = NoRender
    /\ open_figs = 0
    /\ images = <<>>
    /\ up_df = NoDF /\ edges_up = NoEdges /\ down_df = NoDF /\ edges_down = NoEdges
    /\ stdout = <<>>
    /\ log = <<>>

CallBuildEdges ==
    /\ pc = "start"
    /\ edges_df' = build_edges(df)
    /\ pc' = "built"
    /\ UNCHANGED <<fs, df, title, mirna_palette, out_png, render, open_figs, images,
                   up_df, edges_up, down_df, edges_down, stdout, log>>

CallPlot ==
    /\ pc = "built"
    /\ LET res == plot_circular_network(edges_df, title, mirna_palette, out_png)
       IN  /\ render' = res.render
           /\ open_figs' = open_figs + res.opened - res.closed
           /\ images' = images \o res.saved
    /\ pc' = "plotted"
    /\ UNCHANGED <<fs, df, title, mirna_palette, out_png, edges_df,
                   up_df, edges_up, down_df, edges_down, stdout, log>>

Next == CallBuildEdges \/ CallPlot

Spec == Init /\ [][Next]_vars

(***************************** load_clean **********************************)
\* The characters str.strip() removes: those for which str.isspace() holds.
\* Space, \t, \n, \r, \f, U+000B and U+001C..U+001F are written as themselves;
\* a character beyond U+007F is written by its code point name.
Whitespace ==
    {" ", "\t", "\n", "\r", "\f", "", "", "", "", "", "U+0085", "U+00A0",
     "U+1680", "U+2000", "U+2001", "U+2002", "U+2003", "U+2004",
     "U+2005", "U+2006", "U+2007", "U+2008", "U+2009", "U+200A",
     "U+2028", "U+2029", "U+202F", "U+205F", "U+3000"}

RECURSIVE LStrip(_)
LStrip(s) == IF s # <<>> /\ Head(s) \in Whitespace THEN LStrip(Tail(s)) ELSE s

RECURSIVE RStrip(_)
RStrip(s) ==
    IF s # <<>> /\ s[Len(s)] \in Whitespace THEN RStrip(SubSeq(s, 1, Len(s) - 1)) ELSE s

\* str.strip()
Strip(s) == RStrip(LStrip(s))

\* lambda x: x.strip() if isinstance(x, str) else x (NaN is a float)
StripCell(x) == IF x = NaN THEN x ELSE Strip(x)

\* number of rows of a table (0 when it has no column)
NRows(t) == IF Len(t) = 0 THEN 0 ELSE Len(t[1].cells)

RECURSIVE Pick(_, _, _)
\* the entries of s at the positions i..Len(s) that belong to keep, in order
Pick(s, keep, i) ==
    IF i > Len(s) THEN <<>>
    ELSE (IF i \in keep THEN <<s[i]>> ELSE <<>>) \o Pick(s, keep, i + 1)

\* df.dropna(how="all"): rows whose cells are all NaN are removed
DropEmptyRows(t) ==
    LET keep == {r \in 1..NRows(t) : \E c \in DOMAIN t : t[c].cells[r] # NaN}
    IN  [c \in DOMAIN t |-> [name |-> t[c].name, cells |-> Pick(t[c].cells, keep, 1)]]

\* df.applymap(strip)
StripAll(t) ==
    [c \in DOMAIN t |->
        [name |-> t[c].name, cells |-> [r \in DOMAIN t[c].cells |-> StripCell(t[c].cells[r])]]]

\* df.dropna(axis=1, how="all"): columns whose cells are all NaN are removed
DropEmptyColumns(t) ==
    SelectSeq(t, LAMBDA col : \E r \in DOMAIN col.cells : col.cells[r] # NaN)

\* lines 26-31 on the sheet that pd.read_excel returned
load_clean(sheet) == DropEmptyColumns(StripAll(DropEmptyRows(sheet)))

(***************************** main ****************************************)
\* cells of a sheet as read: empty, a gene, the gene padded with a space, a
\* tab and a newline, and a cell of a space and a no-break space only
RawCells == {NaN, <<"A">>, <<" ", "\t", "A", "\n">>, <<" ", "U+00A0">>}

\* a sheet with one more miRNA column than PALETTE_UP has colours, all
\* listing the same gene
WideSheet == [i \in 1..(Len(PALETTE_UP) + 1) |-> [name |-> MirName(i), cells |-> << <<"A">> >>]]

Sheets ==
    {WideSheet} \cup
    UNION { TablesOf(c, r, RawCells) :
              <<c, r>> \in { p \in (0..MaxSheetCells) \X (0..MaxSheetCells) :
                               /\ p[1] * p[2] <= MaxSheetCells
                               /\ p[1] = 0 => p[2] = 0 } }

\* a file pd.read_excel can read holds a sheet; any other path makes it raise
Missing == [exists |-> FALSE, sheet |-> <<>>]
Files == {[exists |-> TRUE, sheet |-> sh] : sh \in Sheets} \cup {Missing}

\* pd.read_excel(path) succeeds (line 26)
Readable(path) == fs[path].exists

OkLine == "OK -> network_up_alllabels.png, network_down_alllabels.png"

InitMain ==
    /\ pc = "load_up"
    /\ fs \in [{UP_XLSX, DOWN_XLSX} -> Files]
    /\ df = NoDF
    /\ mirna_palette = <<>>
    /\ title = ""
    /\ out_png = ""
    /\ edges_df = NoEdges
    /\ render = NoRender
    /\ open_figs = 0
    /\ images = <<>>
    /\ up_df = NoDF /\ edges_up = NoEdges /\ down_df = NoDF /\ edges_down = NoEdges
    /\ stdout = <<>>
    /\ log = <<>>

\* mutant of Continue: the error of a step is swallowed
ContinueAlways(ok, next) == next

\* main has no try/except: a step that raised ends main, otherwise the next
\* statement runs
Continue(ok, next) == IF ok THEN next ELSE "aborted"

\* line 168
LoadUp ==
    /\ pc = "load_up"
    /\ LET ok == Readable(UP_XLSX)
       IN  /\ up_df' = IF ok THEN load_clean(fs[UP_XLSX].sheet) ELSE up_df
           /\ log' = Append(log, [step |-> "load_up", ok |-> ok])
           /\ pc' = Continue(ok, "build_up")
    /\ UNCHANGED <<fs, df, title, mirna_palette, out_png, edges_df, render, open_figs,
                   images, edges_up, down_df, edges_down, stdout>>

\* line 169
BuildUp ==
    /\ pc = "build_up"
    /\ edges_up' = build_edges(up_df)
    /\ log' = Append(log, [step |-> "build_up", ok |-> TRUE])
    /\ pc' = Continue(TRUE, "plot_up")
    /\ UNCHANGED <<fs, df, title, mirna_palette, out_png, edges_df, render, open_figs,
                   images, up_df, down_df, edges_down, stdout>>

\* lines 170-171
PlotUp ==
    /\ pc = "plot_up"
    /\ LET res == plot_circular_network(edges_up, "A) Upregulated miRNAs", PALETTE_UP, UpPng)
           ok == res.render.outcome = "returned"
       IN  /\ render' = res.render
           /\ open_figs' = open_figs + res.opened - res.closed
           /\ images' = images \o res.saved
           /\ log' = Append(log, [step |-> "plot_up", ok |-> ok])
           /\ pc' = Continue(ok, "load_down")
    /\ UNCHANGED <<fs, df, title, mirna_palette, out_png, edges_df,
                   up_df, edges_up, down_df, edges_down, stdout>>

\* line 173
LoadDown ==
    /\ pc = "load_down"
    /\ LET ok == Readable(DOWN_XLSX)
       IN  /\ down_df' = IF ok THEN load_clean(fs[DOWN_XLSX].sheet) ELSE down_df
           /\ log' = Append(log, [step |-> "load_down", ok |-> ok])
           /\ pc' = Continue(ok, "build_down")
    /\ UNCHANGED <<fs, df, title, mirna_palette, out_png, edges_df, render, open_figs,
                   images, up_df, edges_up, edges_down, stdout>>

\* line 174
BuildDown ==
    /\ pc = "build_down"
    /\ edges_down' = build_edges(down_df)
    /\ log' = Append(log, [step |-> "build_down", ok |-> TRUE])
    /\ pc' = Continue(TRUE, "plot_down")
    /\ UNCHANGED <<fs, df, title, mirna_palette, out_png, edges_df, render, open_figs,
                   images, up_df, edges_up, down_df, stdout>>

\* lines 175-176
PlotDown ==
    /\ pc = "plot_down"
    /\ LET res == plot_circular_network(edges_down, "B) Downregulated miRNAs",
                                        PALETTE_DOWN, DownPng)
           ok == res.render.outcome = "returned"
       IN  /\ render' = res.render
           /\ open_figs' = open_figs + res.opened - res.closed
           /\ images' = images \o res.saved
           /\ log' = Append(log, [step |-> "plot_down", ok |-> ok])
           /\ pc' = Continue(ok, "print")
    /\ UNCHANGED <<fs, df, title, mirna_palette, out_png, edges_df,
                   up_df, edges_up, down_df, edges_down, stdout>>

\* line 177
PrintOk ==
    /\ pc = "print"
    /\ stdout' = Append(stdout, OkLine)
    /\ log' = Append(log, [step |-> "print", ok |-> TRUE])
    /\ pc' = Continue(TRUE, "done")
    /\ UNCHANGED <<fs, df, title, mirna_palette, out_png, edges_df, render, open_figs,
                   images, up_df, edges_up, down_df, edges_down>>

NextMain == LoadUp \/ BuildUp \/ PlotUp \/ LoadDown \/ BuildDown \/ PlotDown \/ PrintOk

SpecMain == InitMain /\ [][NextMain]_vars

(***************************** properties ***********************************)
\* the genes listed in table t
TableGenes(t) == {t[c].cells[r] : <<c, r>> \in {q \in (DOMAIN t) \X (1..NRows(t)) : TRUE}} \ {NaN}

\* the columns of t that list gene g in at least one cell
ColumnsListing(t, g) == {c \in DOMAIN t : \E r \in DOMAIN t[c].cells : t[c].cells[r] = g}

\* the number of distinct miRNAs of t that target gene g
DistinctMirCount(t, g) == Cardinality(ColumnsListing(t, g))

\* the number of cells of column c of t that hold g
CellCount(t, c, g) == Cardinality({r \in DOMAIN t[c].cells : t[c].cells[r] = g})

\* position of the first occurrence of x in s
FirstPos(x, s) == CHOOSE i \in DOMAIN s : s[i] = x /\ \A j \in 1..(i - 1) : s[j] # x

\* first-appearance index of x among the distinct values of s, from 0
Rank(x, s) == Cardinality({s[j] : j \in 1..(FirstPos(x, s) - 1)})

\* number of distinct values of s
Distinct(s) == Cardinality({s[i] : i \in DOMAIN s})

OutRows == edges_df.rows
OutMirs == [i \in DOMAIN OutRows |-> OutRows[i].miRNA]
OutGenes == {OutRows[i].Gene : i \in DOMAIN OutRows}
OutPairs == {<<OutRows[i].miRNA, OutRows[i].Gene>> : i \in DOMAIN OutRows}
Built == pc \in {"built", "plotted"}
Plotted == pc = "plotted"

\* C1: build_edges retains a gene iff at least 2 distinct miRNA columns list
\* it, and a retained gene appears at least once for each miRNA listing it.
C1_RetainedIffDistinctShared ==
    Built =>
        \A g \in TableGenes(df) :
            /\ (g \in OutGenes) <=> (DistinctMirCount(df, g) >= 2)
            /\ DistinctMirCount(df, g) >= 2 =>
                 \A c \in ColumnsListing(df, g) : <<df[c].name, g>> \in OutPairs

\* C2: the Category of every output row is decided by the distinct-miRNA
\* count of its gene (2 -> "2", 3 -> "3", >= 4 -> "4+"), so one gene never
\* carries two categories.
C2_CategoryByDistinctCount ==
    Built =>
        \A i \in DOMAIN OutRows :
            LET c == DistinctMirCount(df, OutRows[i].Gene)
            IN  /\ c = 2 => OutRows[i].Category = "2"
                /\ c = 3 => OutRows[i].Category = "3"
                /\ c >= 4 => OutRows[i].Category = "4+"
                /\ \A j \in DOMAIN OutRows :
                     OutRows[j].Gene = OutRows[i].Gene => OutRows[j].Category = OutRows[i].Category

\* the (miRNA, Gene) part of the output rows that come from column c
OutOfColumn(c) ==
    LET sel == SelectSeq(OutRows, LAMBDA e : e.miRNA = df[c].name)
    IN  [i \in DOMAIN sel |-> sel[i].Gene]

\* C3: the output is the stable filter of the candidate edges: rows come
\* column by column in the table's column order; within a column they are
\* the column's cells that hold a retained gene, in cell order, repeated
\* cells kept as separate rows.
C3_StableFilter ==
    Built =>
        /\ \A i, j \in DOMAIN OutRows :
             i < j => \E a, b \in DOMAIN df :
                        a <= b /\ df[a].name = OutRows[i].miRNA /\ df[b].name = OutRows[j].miRNA
        /\ \A c \in DOMAIN df :
             /\ OutOfColumn(c) = SelectSeq(df[c].cells, LAMBDA x : x \in OutGenes)
             /\ \A g \in OutGenes :
                  Cardinality({i \in DOMAIN OutRows :
                                 OutRows[i].miRNA = df[c].name /\ OutRows[i].Gene = g})
                    = CellCount(df, c, g)

\* a gene is dropped while a repeated cell of a retained gene is kept
C3_Witness ==
    /\ pc = "built"
    /\ TableGenes(df) \ OutGenes # {}
    /\ \E i, j \in DOMAIN OutRows :
         i < j /\ OutRows[i].miRNA = OutRows[j].miRNA /\ OutRows[i].Gene = OutRows[j].Gene
    /\ Distinct(OutMirs) >= 2

\* all non-empty cells of t
NonEmptyCells(t) == {q \in (DOMAIN t) \X (1..NRows(t)) : t[q[1]].cells[q[2]] # NaN}

\* C4: a table with no column, with only empty cells, or with one column
\* holding one gene gives a zero-row edge list with the columns miRNA, Gene
\* and Category.
C4_EmptyResult ==
    (Built /\ (\/ Len(df) = 0
               \/ NonEmptyCells(df) = {}
               \/ Len(df) = 1 /\ Cardinality(NonEmptyCells(df)) = 1))
        => /\ edges_df.rows = <<>>
           /\ edges_df.columns = <<"miRNA", "Gene", "Category">>

\* the one-column, one-gene table has been built
C4_Witness ==
    /\ pc = "built"
    /\ Len(df) = 1 /\ Cardinality(NonEmptyCells(df)) = 1
    /\ edges_df.rows = <<>>

StepSet == {render.steps[i] : i \in DOMAIN render.steps}

\* C5: on a zero-row edge list plot_circular_network writes exactly the
\* placeholder image to the output target and returns, without running a
\* graph, colour, layout, drawing or legend step, whatever the palette.
C5_Placeholder ==
    (Plotted /\ OutRows = <<>>) =>
        /\ render.outcome = "returned"
        /\ Len(images) = 1
        /\ images[1].kind = "placeholder" /\ images[1].path = out_png /\ images[1].title = title
        /\ StepSet \cap {"graph", "colors", "layout", "draw_edges", "draw_mirna_nodes",
                         "draw_gene_nodes", "labels", "guides", "legend"} = {}
        /\ render.lines = <<>>

\* the placeholder was rendered with an empty palette
C5_Witness ==
    /\ Plotted /\ OutRows = <<>> /\ mirna_palette = <<>>
    /\ Len(images) = 1 /\ images[1].kind = "placeholder"

\* the colour of a miRNA: the palette entry of its first-appearance index
\* or, beyond the palette, the fallback grey
ColourOf(m) ==
    IF Rank(m, OutMirs) < Len(mirna_palette) THEN mirna_palette[Rank(m, OutMirs) + 1]
    ELSE FallbackColor

\* the segments drawn between the positions of m and g
LinesJoining(m, g) ==
    {l \in DOMAIN render.lines :
        {render.lines[l].from, render.lines[l].to} = {render.pos[m], render.pos[g]}}

\* C6 as stated, for a palette that has a colour for every miRNA: one
\* segment per row of the edge list, in the palette colour of the row's
\* miRNA and the width of the row's category.
C6_OneSegmentPerRow ==
    (Plotted /\ OutRows # <<>> /\ Distinct(OutMirs) <= Len(mirna_palette)) =>
        /\ Len(render.lines) = Len(OutRows)
        /\ \A i \in DOMAIN OutRows :
             /\ \E l \in LinesJoining(OutRows[i].miRNA, OutRows[i].Gene) :
                  /\ render.lines[l].color = mirna_palette[Rank(OutRows[i].miRNA, OutMirs) + 1]
                  /\ render.lines[l].lw = EDGE_LW[OutRows[i].Category]

\* C6 (amended): one segment per distinct (miRNA, gene) pair of the edge
\* list, rows repeating a pair giving a single segment; its colour is the
\* palette entry of the miRNA's first-appearance index, or the fallback grey
\* beyond the palette; its width is that of the pair's category.
C6_OneSegmentPerPair ==
    (Plotted /\ OutRows # <<>>) =>
        /\ Len(render.lines) = Cardinality(OutPairs)
        /\ \A i \in DOMAIN OutRows :
             LET js == LinesJoining(OutRows[i].miRNA, OutRows[i].Gene)
             IN  /\ Cardinality(js) = 1
                 /\ \A l \in js :
                      /\ render.lines[l].color = ColourOf(OutRows[i].miRNA)
                      /\ render.lines[l].lw = EDGE_LW[OutRows[i].Category]

\* an edge list with a repeated row was drawn and saved
C6_Witness ==
    /\ Plotted /\ render.outcome = "returned"
    /\ Len(OutRows) > Cardinality(OutPairs)
    /\ Cardinality(OutPairs) >= 3
    /\ Len(render.lines) = Cardinality(OutPairs)

\* the genes of the rows of category cat, in row order
GenesIn(cat) ==
    LET sel == SelectSeq(OutRows, LAMBDA e : e.Category = cat)
    IN  [i \in DOMAIN sel |-> sel[i].Gene]

\* C7: miRNA number k (by first appearance, from 0) of n sits at slot k of n
\* on the outer radius; a gene sits at the slot of its first-appearance
\* index among the distinct genes of its category, on that category's ring;
\* every edge endpoint has a position; the rings lie inside the miRNA circle,
\* "4+" innermost.
C7_Layout ==
    (Plotted /\ OutRows # <<>>) =>
        /\ \A i \in DOMAIN OutRows :
             LET m == OutRows[i].miRNA
                 g == OutRows[i].Gene
                 cat == OutRows[i].Category
             IN  /\ m \in DOMAIN render.pos /\ g \in DOMAIN render.pos
                 /\ render.pos[m] = [r |-> R_outer, k |-> Rank(m, OutMirs), n |-> Distinct(OutMirs)]
                 /\ render.pos[g] = [r |-> RINGS[cat], k |-> Rank(g, GenesIn(cat)),
                                     n |-> Distinct(GenesIn(cat))]
        /\ RINGS["4+"] < RINGS["3"] /\ RINGS["3"] < RINGS["2"] /\ RINGS["2"] < R_outer

\* three miRNAs and two genes of one category were laid out
C7_Witness ==
    /\ Plotted /\ OutRows # <<>>
    /\ Distinct(OutMirs) >= 3
    /\ \E cat \in {"2", "3", "4+"} : Distinct(GenesIn(cat)) = 2
    /\ \E i \in DOMAIN OutRows : render.pos[OutRows[i].miRNA].k = 2

\* C8: when plot_circular_network is left, the figure it created is closed.
C8_FigureReleased == Plotted => open_figs = 0

\* C10: with more distinct miRNAs than palette entries only the first
\* len(palette) miRNAs get a colour, the edges of the others are grey, and
\* the call fails at the miRNA node-colour lookup before an image is
\* written; otherwise every miRNA has a colour and the lookup succeeds.
C10_PaletteExhaustion ==
    (Plotted /\ OutRows # <<>>) =>
        LET n == Distinct(OutMirs)
            p == Len(mirna_palette)
            short == {OutMirs[i] : i \in {j \in DOMAIN OutMirs : Rank(OutMirs[j], OutMirs) >= p}}
        IN  /\ DOMAIN render.miRNA_colors = {OutMirs[i] : i \in DOMAIN OutMirs} \ short
            /\ \A m \in DOMAIN render.miRNA_colors :
                 render.miRNA_colors[m] = mirna_palette[Rank(m, OutMirs) + 1]
            /\ n > p =>
                 /\ short # {}
                 /\ \A i \in DOMAIN OutRows :
                      OutRows[i].miRNA \in short =>
                        /\ LinesJoining(OutRows[i].miRNA, OutRows[i].Gene) # {}
                        /\ \A l \in LinesJoining(OutRows[i].miRNA, OutRows[i].Gene) :
                             render.lines[l].color = FallbackColor
                 /\ render.outcome = "KeyError"
                 /\ render.steps[Len(render.steps)] = "draw_mirna_nodes"
                 /\ images = <<>>
            /\ n <= p => short = {} /\ render.outcome = "returned" /\ Len(images) = 1

\* a non-empty palette ran out: grey edges, KeyError, no image
C10_Witness ==
    /\ Plotted /\ OutRows # <<>>
    /\ Len(mirna_palette) >= 1
    /\ Distinct(OutMirs) > Len(mirna_palette)
    /\ render.outcome = "KeyError"
    /\ \E l \in DOMAIN render.lines : render.lines[l].color = FallbackColor
    /\ \E l \in DOMAIN render.lines : render.lines[l].color # FallbackColor
    /\ images = <<>>

MainSteps == <<"load_up", "build_up", "plot_up", "load_down", "build_down", "plot_down", "print">>
ImagePaths == [i \in DOMAIN images |-> images[i].path]

\* C9: main runs load, build and render of the up set, then of the down
\* set, then prints; the down set is not loaded before the up image is
\* written, the confirmation is printed only after both images are written,
\* and after a failed step nothing more runs and nothing is printed.
C9_Sequential ==
    /\ Len(log) <= Len(MainSteps)
    /\ \A i \in DOMAIN log : log[i].step = MainSteps[i]
    /\ \A i \in DOMAIN log : ~log[i].ok => i = Len(log)
    /\ (\E i \in DOMAIN log : log[i].step = "load_down") => ImagePaths = <<UpPng>>
                                                             \/ ImagePaths = <<UpPng, DownPng>>
    /\ stdout # <<>> => stdout = <<OkLine>> /\ ImagePaths = <<UpPng, DownPng>>
    /\ (\E i \in DOMAIN log : ~log[i].ok) =>
         /\ stdout = <<>>
         /\ ~ENABLED NextMain
         /\ Len(log) <= 3 => ImagePaths = <<>>
         /\ Len(log) > 3 => ImagePaths = <<UpPng>>

\* the up render failed: main stopped, no down image, nothing printed
C9_Witness ==
    /\ pc = "aborted"
    /\ Len(log) = 3 /\ ~log[3].ok
    /\ open_figs = 1
    /\ images = <<>> /\ stdout = <<>>

====
